---- MODULE Spec2Model ----
(***************************************************************************)
(* ForgeSwarm: the build-test-repair loop of src/main.py.                  *)
(*                                                                         *)
(* File names, file contents and manifests are TLA+ strings, handled with  *)
(* operators that compute what the Python string methods compute.  The     *)
(* lexer of TLA+ has no backtick inside a string literal, so the backtick  *)
(* of a Markdown fence is written "~" throughout: Fence is the three       *)
(* backticks of main.py:212.  Test logs are run-length texts (a sequence   *)
(* of blocks [c |-> character, n |-> count]) so that a log longer than the *)
(* 2500-character cap of main.py:281 stays a small value.                  *)
(***************************************************************************)
EXTENDS Integers, Sequences, FiniteSets, TLC

-----------------------------------------------------------------------------
(* Python string methods *)

\* F(v) with v evaluated once: TLC evaluates an operator's argument anew at
\* each use when it evaluates ENABLED, and a bound variable only once
Bind(v, F(_)) ==
    CHOOSE r \in { F(b) : b \in {v} } : TRUE

\* s.startswith(p)
StartsWith(s0, p) ==
    Bind(s0, LAMBDA s : Len(s) >= Len(p) /\ SubSeq(s, 1, Len(p)) = p)

\* s.endswith(p)
EndsWith(s0, p) ==
    Bind(s0, LAMBDA s :
        Len(s) >= Len(p) /\ SubSeq(s, Len(s) - Len(p) + 1, Len(s)) = p)

\* s.find(sub, i) with 1-based positions; 0 when sub does not occur at or after i
RECURSIVE FindFrom(_, _, _)
FindFrom(s, sub, i) ==
    IF i + Len(sub) - 1 > Len(s) THEN 0
    ELSE IF SubSeq(s, i, i + Len(sub) - 1) = sub THEN i
    ELSE FindFrom(s, sub, i + 1)

\* sub in s
StrIn(sub0, s0) ==
    Bind(sub0, LAMBDA sub : Bind(s0, LAMBDA s : FindFrom(s, sub, 1) # 0))

\* s.replace(old, new), old non-empty: every occurrence, left to right
RECURSIVE Replace(_, _, _)
Replace(s0, old, new) ==
    Bind(s0, LAMBDA s : Bind(FindFrom(s, old, 1), LAMBDA i :
        IF i = 0 THEN s
        ELSE SubSeq(s, 1, i - 1) \o new
                \o Replace(SubSeq(s, i + Len(old), Len(s)), old, new)))

\* s.split(sep), sep non-empty
RECURSIVE Split(_, _)
Split(s0, sep) ==
    Bind(s0, LAMBDA s : Bind(FindFrom(s, sep, 1), LAMBDA i :
        IF i = 0 THEN <<s>>
        ELSE <<SubSeq(s, 1, i - 1)>> \o Split(SubSeq(s, i + Len(sep), Len(s)), sep)))

\* sep.join(parts)
RECURSIVE Join(_, _)
Join(parts0, sep) ==
    Bind(parts0, LAMBDA parts :
        IF Len(parts) = 0 THEN ""
        ELSE IF Len(parts) = 1 THEN parts[1]
        ELSE parts[1] \o sep \o Join(Tail(parts), sep))

IsSpace(c) ==
    c \in {" ", "\n", "\t"}

RECURSIVE LStrip(_)
LStrip(s0) ==
    Bind(s0, LAMBDA s :
        IF Len(s) > 0 /\ IsSpace(SubSeq(s, 1, 1))
        THEN LStrip(SubSeq(s, 2, Len(s))) ELSE s)

RECURSIVE RStrip(_)
RStrip(s0) ==
    Bind(s0, LAMBDA s :
        IF Len(s) > 0 /\ IsSpace(SubSeq(s, Len(s), Len(s)))
        THEN RStrip(SubSeq(s, 1, Len(s) - 1)) ELSE s)

\* s.strip()
Strip(s) ==
    LStrip(RStrip(s))

\* c.lower() of one character
LowerChar(c) ==
    CASE c = "A" -> "a" [] c = "B" -> "b" [] c = "C" -> "c" [] c = "D" -> "d"
      [] c = "E" -> "e" [] c = "F" -> "f" [] c = "G" -> "g" [] c = "H" -> "h"
      [] c = "I" -> "i" [] c = "J" -> "j" [] c = "K" -> "k" [] c = "L" -> "l"
      [] c = "M" -> "m" [] c = "N" -> "n" [] c = "O" -> "o" [] c = "P" -> "p"
      [] c = "Q" -> "q" [] c = "R" -> "r" [] c = "S" -> "s" [] c = "T" -> "t"
      [] c = "U" -> "u" [] c = "V" -> "v" [] c = "W" -> "w" [] c = "X" -> "x"
      [] c = "Y" -> "y" [] c = "Z" -> "z" [] OTHER -> c

\* s.lower()
RECURSIVE Lower(_)
Lower(s0) ==
    Bind(s0, LAMBDA s :
        IF Len(s) = 0 THEN ""
        ELSE Bind(SubSeq(s, 1, 1), LAMBDA c : LowerChar(c))
                \o Lower(SubSeq(s, 2, Len(s))))

\* f.readlines() of a file holding s: the lines, each keeping its line break
RECURSIVE ReadLines(_)
ReadLines(s0) ==
    Bind(s0, LAMBDA s : Bind(FindFrom(s, "\n", 1), LAMBDA i :
        IF Len(s) = 0 THEN <<>>
        ELSE IF i = 0 THEN <<s>>
        ELSE <<SubSeq(s, 1, i)>> \o ReadLines(SubSeq(s, i + 1, Len(s)))))

\* "".join(parts), as f.writelines(parts) lays the parts out
RECURSIVE Concat(_)
Concat(parts0) ==
    Bind(parts0, LAMBDA parts :
        IF Len(parts) = 0 THEN "" ELSE parts[1] \o Concat(Tail(parts)))

-----------------------------------------------------------------------------
(* Finite maps (a Python dict read by key, a directory tree read by path) *)

EmptyMap ==
    [k \in {} |-> ""]

\* m[k] = v
Put(m, k, v) ==
    [x \in (DOMAIN m) \cup {k} |-> IF x = k THEN v ELSE m[x]]

\* m.get(k, default)
Get(m, k, default) ==
    IF k \in DOMAIN m THEN m[k] ELSE default

-----------------------------------------------------------------------------
(* Run-length texts: the sandbox log *)

RECURSIVE TextLen(_)
TextLen(t0) ==
    Bind(t0, LAMBDA t : IF Len(t) = 0 THEN 0 ELSE t[1].n + TextLen(Tail(t)))

\* t[-k:], k > 0: the last k characters, all of t when it is shorter
RECURSIVE TakeLast(_, _)
TakeLast(t0, k0) ==
    Bind(t0, LAMBDA t : Bind(k0, LAMBDA k :
        IF Len(t) = 0 THEN <<>>
        ELSE LET b == t[Len(t)]
             IN  IF b.n >= k THEN <<[c |-> b.c, n |-> k]>>
                 ELSE TakeLast(SubSeq(t, 1, Len(t) - 1), k - b.n) \o <<b>>))

\* state['test_output'][-2500:]
LogCap == 2500

\* The whole log, uncut
ErrorLogs_uncut(test_output) ==
    test_output

ErrorLogs(test_output) ==
    TakeLast(test_output, LogCap)

-----------------------------------------------------------------------------
(* builder_node: the module registry, the scheduler, clean_code *)

\* The three backticks of a Markdown fence
Fence == "~~~"

\* valid_module_map[module_path] = filename on an insertion-ordered dict, kept
\* as a sequence of <<key, value>> pairs
DictSet(d0, k0, v) ==
    Bind(d0, LAMBDA d : Bind(k0, LAMBDA k :
        IF \E i \in 1..Len(d) : d[i][1] = k
        THEN [i \in 1..Len(d) |-> IF d[i][1] = k THEN <<k, v>> ELSE d[i]]
        ELSE Append(d, <<k, v>>)))

\* main.py:185-188
ModulePath(filename) ==
    Bind(Replace(Replace(filename, "/", "."), ".py", ""), LAMBDA module_path :
        IF EndsWith(module_path, ".__init__")
        THEN SubSeq(module_path, 1, Len(module_path) - 9)
        ELSE module_path)

\* The registry with a package initializer keeping its own entry beside the
\* package's
RECURSIVE RegistryUpTo_keeps_init(_, _)
RegistryUpTo_keeps_init(files, n) ==
    IF n = 0 THEN <<>>
    ELSE IF EndsWith(files[n].filename, ".py")
    THEN Append(RegistryUpTo_keeps_init(files, n - 1),
                <<ModulePath(files[n].filename), files[n].filename>>)
    ELSE RegistryUpTo_keeps_init(files, n - 1)

\* main.py:181-189, over the first n files of the plan
RECURSIVE RegistryUpTo(_, _)
RegistryUpTo(files, n) ==
    IF n = 0 THEN <<>>
    ELSE IF EndsWith(files[n].filename, ".py")
    THEN DictSet(RegistryUpTo(files, n - 1), ModulePath(files[n].filename),
                 files[n].filename)
    ELSE RegistryUpTo(files, n - 1)

BuildRegistry(files) ==
    RegistryUpTo(files, Len(files))

\* ", ".join(f"'{m}'" for m in valid_imports_list)
ValidImportsStr(d0) ==
    Bind(d0, LAMBDA d : Join([i \in 1..Len(d) |-> "'" \o d[i][1] \o "'"], ", "))

\* get_priority testing for "main" first
get_priority_main_first(filename) ==
    IF StrIn("main", filename) THEN 5
    ELSE IF StrIn("model", filename) THEN 1
    ELSE IF StrIn("schema", filename) THEN 2
    ELSE IF StrIn("crud", filename) THEN 3
    ELSE IF StrIn("service", filename) THEN 3
    ELSE IF StrIn("route", filename) THEN 4
    ELSE 6

\* main.py:197-204
get_priority(filename) ==
    IF StrIn("model", filename) THEN 1
    ELSE IF StrIn("schema", filename) THEN 2
    ELSE IF StrIn("crud", filename) THEN 3
    ELSE IF StrIn("service", filename) THEN 3
    ELSE IF StrIn("route", filename) THEN 4
    ELSE IF StrIn("main", filename) THEN 5
    ELSE 6

\* One step of a stable sort: x goes after every element whose key is <= its own
RECURSIVE InsertByPriority(_, _)
InsertByPriority(sorted0, x0) ==
    Bind(sorted0, LAMBDA sorted : Bind(x0, LAMBDA x :
        IF Len(sorted) = 0 THEN <<x>>
        ELSE IF get_priority(sorted[Len(sorted)].filename) <= get_priority(x.filename)
        THEN Append(sorted, x)
        ELSE Append(InsertByPriority(SubSeq(sorted, 1, Len(sorted) - 1), x),
                    sorted[Len(sorted)])))

\* sorted(plan.files, key=lambda x: get_priority(x.filename))
RECURSIVE SortedUpTo(_, _)
SortedUpTo(files, n) ==
    IF n = 0 THEN <<>> ELSE InsertByPriority(SortedUpTo(files, n - 1), files[n])

SortedFiles(files) ==
    SortedUpTo(files, Len(files))

\* main.py:209-218, the clean_code builder_node uses
\* content.split("\n")[1:] joined again when content starts with a fence
DropFirstLine(c0) ==
    Bind(c0, LAMBDA c : Bind(Split(c, "\n"), LAMBDA lines :
        IF StartsWith(c, Fence) /\ Len(lines) > 1
        THEN Join(Tail(lines), "\n") ELSE c))

\* content.split("\n")[:-1] joined again when content ends with a fence
DropLastLine(c0) ==
    Bind(c0, LAMBDA c : Bind(Split(c, "\n"), LAMBDA lines :
        IF EndsWith(c, Fence) /\ Len(lines) > 1
        THEN Join(SubSeq(lines, 1, Len(lines) - 1), "\n") ELSE c))

clean_code(content) ==
    Strip(DropLastLine(DropFirstLine(Strip(content))))

\* main.py:88-92, on the directory tree disk
get_file_content(disk, filename) ==
    IF filename \in DOMAIN disk THEN disk[filename] ELSE ""

\* main.py:220-222
smart_get_content(files_created, disk, fname) ==
    IF fname \in DOMAIN files_created THEN files_created[fname]
    ELSE get_file_content(disk, fname)

StaticFiles ==
    {"README.md", "Dockerfile", ".gitignore", "requirements.txt"}

\* f"\n### DEPENDENCY CODE ({dep}):\n```python\n{content}\n```"
DependencyBlock(dep, content) ==
    "\n### DEPENDENCY CODE (" \o dep \o "):\n" \o Fence \o "python\n"
        \o content \o "\n" \o Fence

\* f"\n### TARGET IMPLEMENTATION ({impl_name}):\n```python\n{content}\n```"
ImplementationBlock(impl_name, content) ==
    "\n### TARGET IMPLEMENTATION (" \o impl_name \o "):\n" \o Fence \o "python\n"
        \o content \o "\n" \o Fence

\* main.py:234-239, over the first n dependencies
RECURSIVE DependencyContext(_, _, _, _)
DependencyContext(files_created, disk, deps, n) ==
    IF n = 0 THEN ""
    ELSE DependencyContext(files_created, disk, deps, n - 1)
            \o Bind(smart_get_content(files_created, disk, deps[n]), LAMBDA content :
                    IF content # "" THEN DependencyBlock(deps[n], content) ELSE "")

\* main.py:242-246
TestContext(files_created, disk, filename) ==
    IF StrIn("test", filename)
    THEN Bind(Replace(Replace(filename, "tests/test_", "app/"), "tests/", "app/"),
              LAMBDA impl_name :
                Bind(smart_get_content(files_created, disk, impl_name), LAMBDA content :
                    IF content # "" THEN ImplementationBlock(impl_name, content) ELSE ""))
    ELSE ""

\* main.py:234-246
RelatedContent(files_created, disk, spec) ==
    DependencyContext(files_created, disk, spec.dependencies, Len(spec.dependencies))
        \o TestContext(files_created, disk, spec.filename)

-----------------------------------------------------------------------------
(* ensure_requirements *)

RequirementsFile == "requirements.txt"

DefaultReqs == "fastapi\nuvicorn\npydantic\nhttpx\npytest\nrequests\n"

Forbidden ==
    {"sqlite3", "json", "os", "sys", "re", "math", "random"}

\* main.py:81
PkgPart(line) ==
    Strip(Split(Split(Split(line, "==")[1], ">=")[1], "<")[1])

\* main.py:80-84, over the first n lines
RECURSIVE CleanedLines(_, _)
CleanedLines(lines, n) ==
    IF n = 0 THEN <<>>
    ELSE Bind(PkgPart(lines[n]), LAMBDA pkg_part :
            IF Lower(pkg_part) \in Forbidden \/ pkg_part = ""
            THEN CleanedLines(lines, n - 1)
            ELSE Append(CleanedLines(lines, n - 1), pkg_part \o "\n"))

\* main.py:76-86: the manifest written back for a manifest holding content
SanitizedManifest(content) ==
    Bind(ReadLines(content), LAMBDA lines : Concat(CleanedLines(lines, Len(lines))))

\* ensure_requirements opening the manifest for appending when it writes the
\* cleaned lines back
ensure_requirements_appends(disk) ==
    IF RequirementsFile \notin DOMAIN disk
    THEN Put(disk, RequirementsFile, DefaultReqs)
    ELSE Put(disk, RequirementsFile,
             disk[RequirementsFile] \o SanitizedManifest(disk[RequirementsFile]))

\* ensure_requirements starting the workspace tree afresh with the default
\* manifest
ensure_requirements_fresh(disk) ==
    Put(EmptyMap, RequirementsFile, DefaultReqs)

\* main.py:68-86
ensure_requirements(disk) ==
    IF RequirementsFile \notin DOMAIN disk
    THEN Put(disk, RequirementsFile, DefaultReqs)
    ELSE Put(disk, RequirementsFile, SanitizedManifest(disk[RequirementsFile]))

-----------------------------------------------------------------------------
(* Inputs: what the architect, the code oracle and the sandbox may answer *)

\* FileSpec; its description is prompt text only and is left out
FModels == [filename |-> "app/models.py", dependencies |-> <<>>]
FRoutes == [filename |-> "app/routes.py", dependencies |-> <<"app/models.py">>]
FReqs == [filename |-> "requirements.txt", dependencies |-> <<>>]
FInit == [filename |-> "app/__init__.py", dependencies |-> <<>>]
FApp == [filename |-> "app.py", dependencies |-> <<"app/__init__.py">>]
FTest == [filename |-> "tests/test_models.py", dependencies |-> <<>>]

\* The plans llm_architect may return in a run
RunPlans ==
    { <<FRoutes, FModels>>,
      <<FReqs, FModels>>,
      <<FInit, FApp>>,
      <<FTest>>,
      <<FReqs>> }

\* The contents the code oracle may return for a source file
CodeContents ==
    { Fence \o "python\nB=1\n" \o Fence,
      Fence \o "\n" \o Fence \o "\nB=2",
      Fence \o "\nB=2" }

\* The contents the code oracle may return for the dependency manifest
ManifestContents ==
    { "fastapi>=0.100\nos==1.0\n", "pytest\n" }

\* A filename the oracle may answer with instead of the one it was asked for:
\* the dependency manifest, which some plans hold and others do not
StrayName == "requirements.txt"

\* CodeFile: the answers of structured_llm.invoke for the file spec
OracleAnswers(spec) ==
    IF spec.filename = RequirementsFile
    THEN { [filename |-> spec.filename, content |-> c] : c \in ManifestContents }
    ELSE { [filename |-> spec.filename, content |-> c] : c \in CodeContents }
            \cup { [filename |-> StrayName, content |-> "B=1"] }

LogPass == << [c |-> "P", n |-> 40] >>
LogLong == << [c |-> "H", n |-> 100], [c |-> "E", n |-> 2500] >>
LogRaised == << [c |-> "X", n |-> 20] >>

\* What the container run ends with: the suite's status code and log, or an
\* exception of the docker client
SandboxOutcomes ==
    { [raised |-> FALSE, code |-> 0, text |-> LogPass],
      [raised |-> FALSE, code |-> 2, text |-> LogLong],
      [raised |-> TRUE, code |-> 0, text |-> LogRaised] }

\* sandbox.py:35-57
run_repo_tests(outcome) ==
    IF outcome.raised
    THEN [exit_code |-> 1, output |-> outcome.text]
    ELSE [exit_code |-> outcome.code, output |-> outcome.text]

-----------------------------------------------------------------------------
(* State *)

VARIABLES
    pc,               \* the node the graph runs next, or how the run ended
    plan,             \* AgentState
    file_contents,
    test_output,
    iterations,
    status,
    disk,             \* the files under BASE_WORKSPACE
    files_created,    \* builder_node's locals
    is_retry,
    valid_module_map,
    sorted_files,
    idx,              \* the position of builder_node's loop in sorted_files
    request,          \* the last prompt sent to the code oracle
    response,         \* the last answer of the code oracle
    outcome,          \* the last container run
    nBuild,           \* builder_node invocations so far
    nTest,            \* tester_node invocations so far
    nFail,            \* test runs so far that tester_node saw exit nonzero
    writes,           \* sandbox.write_file calls of the current builder_node pass
    reproduced        \* every answer of the current pass cleaned to the known content

vars ==
    <<pc, plan, file_contents, test_output, iterations, status, disk, files_created,
      is_retry, valid_module_map, sorted_files, idx, request, response, outcome,
      nBuild, nTest, nFail, writes, reproduced>>

agent == <<plan, file_contents, test_output, iterations, status>>
locals == <<files_created, is_retry, valid_module_map, sorted_files, idx>>
observed == <<request, response, outcome, nBuild, nTest, nFail, writes, reproduced>>

NoPlan == <<>>
\* Before the first oracle call: passes are numbered from 1, and every answer
\* names a file
NoRequest ==
    [ filename |-> "", valid_imports_str |-> "", related_content |-> "",
      fix_mode |-> FALSE, error_logs |-> <<>>, previous_code |-> "", pass |-> 0 ]
NoResponse == [filename |-> "", content |-> ""]
NoOutcome == [raised |-> FALSE, code |-> 0, text |-> <<>>]

\* main.py:324
MaxIterations == 5

\* main.py:351 and main.py:23-25
Init ==
    /\ pc = "architect_node"
    /\ plan = NoPlan
    /\ file_contents = EmptyMap
    /\ test_output = <<>>
    /\ iterations = 0
    /\ status = "starting"
    /\ disk = EmptyMap
    /\ files_created = EmptyMap
    /\ is_retry = FALSE
    /\ valid_module_map = <<>>
    /\ sorted_files = <<>>
    /\ idx = 0
    /\ request = NoRequest
    /\ response = NoResponse
    /\ outcome = NoOutcome
    /\ nBuild = 0
    /\ nTest = 0
    /\ nFail = 0
    /\ writes = 0
    /\ reproduced = TRUE

-----------------------------------------------------------------------------
(* Nodes *)

\* main.py:142-168
ArchitectNode ==
    /\ pc = "architect_node"
    /\ \E p \in RunPlans : plan' = p
    /\ pc' = "builder_node"
    /\ UNCHANGED <<file_contents, test_output, iterations, status, disk>>
    /\ UNCHANGED <<locals, observed>>

\* main.py:165 raising: the run ends
ArchitectFails ==
    /\ pc = "architect_node"
    /\ pc' = "aborted"
    /\ UNCHANGED <<agent, disk, locals, observed>>

\* main.py:176
IsRetry(n) ==
    n > 0

\* main.py:173-222
BuilderEnter ==
    /\ pc = "builder_node"
    /\ files_created' = file_contents
    /\ is_retry' = IsRetry(iterations)
    /\ valid_module_map' = BuildRegistry(plan)
    /\ sorted_files' = SortedFiles(plan)
    /\ idx' = 1
    /\ pc' = "builder_loop"
    /\ nBuild' = nBuild + 1
    /\ writes' = 0
    /\ reproduced' = TRUE
    /\ UNCHANGED <<agent, disk, request, response, outcome, nTest, nFail>>

\* main.py:227
Skipped(retry, spec) ==
    retry /\ spec.filename \in StaticFiles

\* main.py:225-228
BuilderSkip ==
    /\ pc = "builder_loop"
    /\ idx <= Len(sorted_files)
    /\ Skipped(is_retry, sorted_files[idx])
    /\ idx' = idx + 1
    /\ UNCHANGED <<pc, agent, disk, files_created, is_retry, valid_module_map,
                   sorted_files, observed>>

\* main.py:231
CurrentContent(created, spec) ==
    Get(created, spec.filename, "")

\* main.py:249-291: the parts of the prompt that vary
Prompt(spec, retry, registry, created, tree, log, pass) ==
    [ filename |-> spec.filename,
      valid_imports_str |-> ValidImportsStr(registry),
      related_content |-> RelatedContent(created, tree, spec),
      fix_mode |-> retry,
      error_logs |-> IF retry THEN ErrorLogs(log) ELSE <<>>,
      previous_code |-> IF retry THEN CurrentContent(created, spec) ELSE "",
      pass |-> pass ]

\* main.py:298 comparing the two strings by identity
Differs_by_identity(cleaned_content, current_content) ==
    TRUE

\* main.py:298
Differs(cleaned_content, current_content) ==
    Strip(cleaned_content) # Strip(current_content)

\* main.py:299: the key the content is stored under
StoreKey(spec, result) ==
    result.filename

\* builder_node storing the answer in files_created without writing it to disk
BuilderFile_memory_only ==
    /\ pc = "builder_loop"
    /\ idx <= Len(sorted_files)
    /\ ~Skipped(is_retry, sorted_files[idx])
    /\ LET spec == sorted_files[idx]
           current_content == CurrentContent(files_created, spec)
       IN  /\ request' = Prompt(spec, is_retry, valid_module_map, files_created,
                                disk, test_output, nBuild)
           /\ \E result \in OracleAnswers(spec) :
                LET cleaned_content == clean_code(result.content)
                IN  /\ response' = result
                    /\ reproduced' = (reproduced /\ cleaned_content = current_content)
                    /\ IF Differs(cleaned_content, current_content)
                       THEN /\ files_created' =
                                   Put(files_created, StoreKey(spec, result), cleaned_content)
                            /\ writes' = writes + 1
                       ELSE UNCHANGED <<files_created, writes>>
    /\ idx' = idx + 1
    /\ UNCHANGED <<pc, agent, disk, is_retry, valid_module_map, sorted_files, outcome,
                   nBuild, nTest, nFail>>

\* main.py:230-300, the oracle answering result
BuilderFile ==
    /\ pc = "builder_loop"
    /\ idx <= Len(sorted_files)
    /\ ~Skipped(is_retry, sorted_files[idx])
    /\ LET spec == sorted_files[idx]
           current_content == CurrentContent(files_created, spec)
       IN  /\ request' = Prompt(spec, is_retry, valid_module_map, files_created,
                                disk, test_output, nBuild)
           /\ \E result \in OracleAnswers(spec) :
                LET cleaned_content == clean_code(result.content)
                IN  /\ response' = result
                    /\ reproduced' = (reproduced /\ cleaned_content = current_content)
                    /\ IF Differs(cleaned_content, current_content)
                       THEN /\ files_created' =
                                   Put(files_created, StoreKey(spec, result), cleaned_content)
                            /\ disk' = Put(disk, StoreKey(spec, result), cleaned_content)
                            /\ writes' = writes + 1
                       ELSE UNCHANGED <<files_created, disk, writes>>
    /\ idx' = idx + 1
    /\ UNCHANGED <<pc, agent, is_retry, valid_module_map, sorted_files, outcome,
                   nBuild, nTest, nFail>>

\* builder_node catching the exception of main.py:294 and going on to the next
\* file
BuilderOracleFails_recovers ==
    /\ pc = "builder_loop"
    /\ idx <= Len(sorted_files)
    /\ ~Skipped(is_retry, sorted_files[idx])
    /\ request' = Prompt(sorted_files[idx], is_retry, valid_module_map, files_created,
                         disk, test_output, nBuild)
    /\ response' = NoResponse
    /\ idx' = idx + 1
    /\ UNCHANGED <<pc, agent, disk, files_created, is_retry, valid_module_map,
                   sorted_files, outcome, nBuild, nTest, nFail, writes, reproduced>>

\* main.py:294 raising: nothing is caught, the run ends
BuilderOracleFails ==
    /\ pc = "builder_loop"
    /\ idx <= Len(sorted_files)
    /\ ~Skipped(is_retry, sorted_files[idx])
    /\ request' = Prompt(sorted_files[idx], is_retry, valid_module_map, files_created,
                         disk, test_output, nBuild)
    /\ response' = NoResponse
    /\ pc' = "aborted"
    /\ UNCHANGED <<agent, disk, locals, outcome, nBuild, nTest, nFail, writes, reproduced>>

\* main.py:302
BuilderReturn ==
    /\ pc = "builder_loop"
    /\ idx > Len(sorted_files)
    /\ file_contents' = files_created
    /\ pc' = "tester_node"
    /\ UNCHANGED <<plan, test_output, iterations, status, disk, locals, observed>>

\* tester_node setting status failed once the failures reach the retry bound
TesterUpdate_sets_failed(n, result) ==
    IF result.exit_code = 0
    THEN [status |-> "success", test_output |-> result.output, iterations |-> n]
    ELSE [status |-> IF n + 1 >= MaxIterations THEN "failed" ELSE "failed_check",
          test_output |-> result.output, iterations |-> n + 1]

\* tester_node starting the count of failures afresh on success
TesterUpdate_resets(n, result) ==
    IF result.exit_code = 0
    THEN [status |-> "success", test_output |-> result.output, iterations |-> 0]
    ELSE [status |-> "failed_check", test_output |-> result.output, iterations |-> n + 1]

\* tester_node counting every run, passed or failed
TesterUpdate_counts_all(n, result) ==
    IF result.exit_code = 0
    THEN [status |-> "success", test_output |-> result.output, iterations |-> n + 1]
    ELSE [status |-> "failed_check", test_output |-> result.output, iterations |-> n + 1]

\* main.py:311-317: the update tester_node returns, merged into the state
TesterUpdate(n, result) ==
    IF result.exit_code = 0
    THEN [status |-> "success", test_output |-> result.output, iterations |-> n]
    ELSE [status |-> "failed_check", test_output |-> result.output, iterations |-> n + 1]

\* should_continue without its retry bound
should_continue_unbounded(st, n) ==
    IF st = "success" THEN "done" ELSE "builder_node"

\* should_continue testing for a status tester_node never sets
should_continue_typo(st, n) ==
    IF st = "passed" THEN "done"
    ELSE IF n >= MaxIterations THEN "failed"
    ELSE "builder_node"

\* should_continue sending a failed run back to tester_node
should_continue_retest(st, n) ==
    IF st = "success" THEN "done"
    ELSE IF n >= MaxIterations THEN "failed"
    ELSE "tester_node"

\* should_continue with > for >=
should_continue_off_by_one(st, n) ==
    IF st = "success" THEN "done"
    ELSE IF n > MaxIterations THEN "failed"
    ELSE "builder_node"

\* main.py:322-328
should_continue(st, n) ==
    IF st = "success" THEN "done"
    ELSE IF n >= MaxIterations THEN "failed"
    ELSE "builder_node"

\* main.py:304-317, then the conditional edge of main.py:337
TesterNode ==
    /\ pc = "tester_node"
    /\ disk' = ensure_requirements(disk)
    /\ \E o \in SandboxOutcomes :
         LET update == TesterUpdate(iterations, run_repo_tests(o))
         IN  /\ outcome' = o
             /\ nFail' = IF run_repo_tests(o).exit_code # 0 THEN nFail + 1 ELSE nFail
             /\ status' = update.status
             /\ test_output' = update.test_output
             /\ iterations' = update.iterations
             /\ pc' = should_continue(update.status, update.iterations)
    /\ nTest' = nTest + 1
    /\ UNCHANGED <<plan, file_contents, locals, request, response, nBuild, writes,
                   reproduced>>

Next ==
    \/ ArchitectNode
    \/ ArchitectFails
    \/ BuilderEnter
    \/ BuilderSkip
    \/ BuilderFile
    \/ BuilderOracleFails
    \/ BuilderReturn
    \/ TesterNode

Spec ==
    Init /\ [][Next]_vars

\* Every call returns: a node that can run does run
FairSpec ==
    Spec /\ WF_vars(Next)

-----------------------------------------------------------------------------
(* builder_node's registry and scheduler over every plan of a bounded length *)

MaxPlanLen == 3

PlanPool ==
    { "app/models.py", "app/schemas.py", "app/crud.py", "app/services.py",
      "app/routes.py", "app/main.py", "app/main_schema.py", "tests/test_models.py",
      "app/__init__.py", "app.py", "README.md" }

\* The sequences of at most n distinct file specs over PlanPool
RECURSIVE PlansUpTo(_)
PlansUpTo(n) ==
    IF n = 0 THEN { <<>> }
    ELSE LET shorter == PlansUpTo(n - 1)
         IN  shorter \cup
             { Append(q, [filename |-> f, dependencies |-> <<>>]) :
                 <<q, f>> \in { x \in shorter \X PlanPool :
                                  /\ Len(x[1]) = n - 1
                                  /\ \A i \in 1..Len(x[1]) : x[1][i].filename # x[2] } }

\* builder_node entered with a plan of the pool and the initial state of main.py:351
PlanInit ==
    /\ pc = "builder_node"
    /\ plan \in PlansUpTo(MaxPlanLen) \ { <<>> }
    /\ file_contents = EmptyMap
    /\ test_output = <<>>
    /\ iterations = 0
    /\ status = "starting"
    /\ disk = EmptyMap
    /\ files_created = EmptyMap
    /\ is_retry = FALSE
    /\ valid_module_map = <<>>
    /\ sorted_files = <<>>
    /\ idx = 0
    /\ request = NoRequest
    /\ response = NoResponse
    /\ outcome = NoOutcome
    /\ nBuild = 0
    /\ nTest = 0
    /\ nFail = 0
    /\ writes = 0
    /\ reproduced = TRUE

PlanNext ==
    BuilderEnter

PlanSpec ==
    PlanInit /\ [][PlanNext]_vars

-----------------------------------------------------------------------------
(* tester_node's manifest sanitation over every manifest of a bounded length *)

MaxManifestLen == 2

\* Package names: a third-party one and two of the standard library
ManifestNames ==
    { "fastapi", "os", "Sys" }

\* Version specifiers: none, and one for each of the operators ==, >=, <, >
ManifestSpecifiers ==
    { "", "==1.0", ">=0.100", "<2", ">1.0" }

\* A package with a version specifier, or a blank line
ManifestLines ==
    { name \o specifier : <<name, specifier>> \in ManifestNames \X ManifestSpecifiers }
        \cup { "" }

\* The sequences of at most n manifest lines
RECURSIVE ManifestsUpTo(_)
ManifestsUpTo(n) ==
    IF n = 0 THEN { <<>> }
    ELSE LET shorter == ManifestsUpTo(n - 1)
         IN  shorter \cup
             { Append(x[1], x[2]) : x \in { y \in shorter \X ManifestLines : Len(y[1]) = n - 1 } }

\* tester_node entered after the first pass of builder_node over a plan of the
\* manifest alone, the oracle having answered with the lines of a manifest
ManifestInit ==
    \E lines \in ManifestsUpTo(MaxManifestLen) :
      LET result == [filename |-> RequirementsFile, content |-> Join(lines, "\n")]
          cleaned_content == clean_code(result.content)
          written == IF Differs(cleaned_content, "")
                     THEN Put(EmptyMap, result.filename, cleaned_content)
                     ELSE EmptyMap
      IN  /\ pc = "tester_node"
          /\ plan = <<FReqs>>
          /\ file_contents = written
          /\ test_output = <<>>
          /\ iterations = 0
          /\ status = "starting"
          /\ disk = written
          /\ files_created = written
          /\ is_retry = FALSE
          /\ valid_module_map = BuildRegistry(<<FReqs>>)
          /\ sorted_files = SortedFiles(<<FReqs>>)
          /\ idx = 2
          /\ request = Prompt(FReqs, FALSE, BuildRegistry(<<FReqs>>), EmptyMap, EmptyMap,
                              <<>>, 1)
          /\ response = result
          /\ outcome = NoOutcome
          /\ nBuild = 1
          /\ nTest = 0
          /\ nFail = 0
          /\ writes = IF Differs(cleaned_content, "") THEN 1 ELSE 0
          /\ reproduced = (cleaned_content = "")

\* tester_node, and the retry passes of builder_node between its runs, which
\* skip the manifest
ManifestNext ==
    \/ TesterNode
    \/ BuilderEnter
    \/ BuilderSkip
    \/ BuilderReturn

ManifestSpec ==
    ManifestInit /\ [][ManifestNext]_vars

-----------------------------------------------------------------------------
(* Properties *)

Terminal ==
    pc \in {"done", "failed", "aborted"}

\* The loop of builder_node is about to send a prompt to the oracle
AtOracleCall ==
    /\ pc = "builder_loop"
    /\ idx <= Len(sorted_files)
    /\ ~Skipped(is_retry, sorted_files[idx])

\* C1: whatever the test runs end with, and with every call returning, the
\* run reaches a terminal state, and it never enters builder_node or
\* tester_node more than MaxIterations + 1 = 6 times.
C1_Terminates ==
    /\ [](nBuild <= MaxIterations + 1 /\ nTest <= MaxIterations + 1)
    /\ <>Terminal

\* The longest run: every test run failed, and the run ended
C1_Witness ==
    pc = "failed" /\ nBuild = MaxIterations /\ nTest = MaxIterations

\* C2: once a test run has given status success the run is done, and no step
\* follows: no builder_node, no oracle call, no write, no tester_node.
C2_NoBuildAfterSuccess ==
    /\ [](status = "success" => pc = "done")
    /\ [][status = "success" =>
            UNCHANGED <<nBuild, nTest, request, response, disk, file_contents, pc>>]_vars

\* Success after four failed test runs
C2_Witness ==
    pc = "done" /\ status = "success" /\ iterations = MaxIterations - 1 /\ nBuild = MaxIterations

\* C3: a test run ending failed_check with iterations >= 5 ends the run as
\* failed, and nothing runs after that; a test run ending failed_check with
\* iterations < 5 is followed by builder_node in fix mode, with the failing
\* log and the incremented iterations carried over.
C3_RetryBound ==
    [][ /\ (pc = "failed" => UNCHANGED vars)
        /\ (pc = "tester_node" /\ status' = "failed_check" /\ iterations' >= 5
              => pc' = "failed")
        /\ (pc = "tester_node" /\ status' = "failed_check" /\ iterations' < 5
              => pc' = "builder_node")
        /\ (pc = "builder_node" /\ status = "failed_check"
              => /\ pc' = "builder_loop"
                 /\ is_retry'
                 /\ iterations > 0 /\ iterations' = iterations
                 /\ test_output = run_repo_tests(outcome).output
                 /\ test_output' = test_output) ]_vars

\* The fifth failed test run ended the run after five builds
C3_Witness ==
    pc = "failed" /\ status = "failed_check" /\ iterations >= 5 /\ nBuild = 5

\* C4 as claimed: a run ended by the retry controller has status success or
\* failed.
C4_TerminalStatus ==
    pc \in {"done", "failed"} => status \in {"success", "failed"}

\* C4 as the code has it: a run ended by the retry controller as done has
\* status success; a run ended because iterations reached the retry bound has
\* status failed_check; no state has status failed.
C4_TerminalStatusAmended ==
    /\ status \in {"starting", "success", "failed_check"}
    /\ (pc = "done" => status = "success")
    /\ (pc = "failed" => status = "failed_check" /\ iterations >= MaxIterations)

C4_Witness ==
    pc = "failed" /\ status = "failed_check" /\ outcome.raised

\* C5: tester_node maps exit code 0 to status success with iterations
\* unchanged, any other exit code to status failed_check with iterations one
\* more than before, and in both cases test_output becomes the log of the run.
C5_TesterMapping ==
    [][ pc = "tester_node" =>
          LET result == run_repo_tests(outcome')
          IN  /\ (result.exit_code = 0 =>
                      status' = "success" /\ iterations' = iterations)
              /\ (result.exit_code # 0 =>
                      status' = "failed_check" /\ iterations' = iterations + 1)
              /\ test_output' = result.output ]_vars

\* A test run that exited 2 on top of two earlier failures
C5_Witness ==
    /\ outcome.code = 2 /\ ~outcome.raised
    /\ status = "failed_check" /\ iterations = 3 /\ test_output = LogLong

\* C6 as claimed: when the oracle answers with the very content the workspace
\* holds for the file, nothing is stored and nothing is written.
C6_IdempotentRaw ==
    [][ AtOracleCall /\ pc' = "builder_loop"
          /\ response'.content = CurrentContent(files_created, sorted_files[idx])
          => files_created' = files_created /\ disk' = disk ]_vars

\* C6 as the code has it: when the oracle's answer, once its fences are
\* cleaned off, is the content the workspace holds for the file, nothing is
\* stored and nothing is written; a pass in which every answer is so performs
\* no write.
C6_IdempotentCleaned ==
    /\ [](reproduced => writes = 0)
    /\ [][ AtOracleCall /\ pc' = "builder_loop"
             /\ clean_code(response'.content) = CurrentContent(files_created, sorted_files[idx])
             => files_created' = files_created /\ disk' = disk /\ writes' = writes ]_vars

\* A second pass over two files that reproduced both and wrote nothing
C6_Witness ==
    /\ pc = "tester_node" /\ nBuild = 2 /\ reproduced /\ writes = 0
    /\ plan = <<FRoutes, FModels>>
    /\ \A i \in 1..Len(plan) : Get(file_contents, plan[i].filename, "") # ""

\* C7: a prompt sent with iterations > 0 has the fix-mode block, which holds
\* the last 2500 characters at most of the log of the latest test run and the
\* workspace content of the file; a prompt sent with iterations = 0 has none.
C7_FixMode ==
    [][ AtOracleCall =>
          /\ (iterations > 0 =>
                /\ request'.fix_mode
                /\ request'.error_logs = TakeLast(run_repo_tests(outcome).output, 2500)
                /\ TextLen(request'.error_logs) <= 2500
                /\ request'.previous_code = Get(files_created, request'.filename, ""))
          /\ (iterations = 0 => ~request'.fix_mode) ]_vars

\* A fix-mode prompt whose log was cut to the cap and whose file has content
C7_Witness ==
    /\ request.fix_mode
    /\ test_output = LogLong /\ TextLen(request.error_logs) = 2500
    /\ request.error_logs # test_output
    /\ request.previous_code # ""

\* The rank C8 gives a filename: the first keyword it holds
C8_Rank(filename) ==
    CASE StrIn("model", filename) -> 1
      [] ~StrIn("model", filename) /\ StrIn("schema", filename) -> 2
      [] \A k \in {"model", "schema"} : ~StrIn(k, filename)
           /\ (StrIn("crud", filename) \/ StrIn("service", filename)) -> 3
      [] \A k \in {"model", "schema", "crud", "service"} : ~StrIn(k, filename)
           /\ StrIn("route", filename) -> 4
      [] \A k \in {"model", "schema", "crud", "service", "route"} : ~StrIn(k, filename)
           /\ StrIn("main", filename) -> 5
      [] OTHER -> 6

\* C8: the generation sequence holds every file of the plan once and no
\* other, in ascending rank, files of equal rank in their order in the plan.
C8_StableSchedule ==
    pc = "builder_loop" =>
      /\ Len(sorted_files) = Len(plan)
      /\ \A i \in 1..Len(plan) :
           Cardinality({ j \in 1..Len(sorted_files) : sorted_files[j] = plan[i] }) = 1
      /\ \A i, j \in 1..Len(sorted_files) :
           i < j => C8_Rank(sorted_files[i].filename) <= C8_Rank(sorted_files[j].filename)
      /\ \A i, j \in 1..Len(plan) :
           i < j /\ C8_Rank(plan[i].filename) = C8_Rank(plan[j].filename)
             => \E a, b \in 1..Len(sorted_files) :
                  a < b /\ sorted_files[a] = plan[i] /\ sorted_files[b] = plan[j]

\* A plan the scheduler reorders, with two files of one rank and a filename
\* holding two keywords
C8_Witness ==
    /\ pc = "builder_loop"
    /\ plan = << [filename |-> "app/services.py", dependencies |-> <<>>],
                 [filename |-> "app/main_schema.py", dependencies |-> <<>>],
                 [filename |-> "app/crud.py", dependencies |-> <<>>] >>
    /\ sorted_files = << plan[2], plan[1], plan[3] >>

\* C9: when the file of the prompt depends on the file the oracle answered
\* for just before in the same pass, the context of the prompt holds the
\* content of that answer.
C9_DependencyContext ==
    [][ /\ AtOracleCall
        /\ request.pass = nBuild
        /\ \E d \in 1..Len(sorted_files[idx].dependencies) :
             sorted_files[idx].dependencies[d] = request.filename
        => StrIn(clean_code(response.content), request'.related_content) ]_vars

\* C10: the registry has no key twice, every value is a filename of the plan,
\* and the registry in the prompt is the one of the plan, the same in every
\* prompt of a run.
C10_Registry ==
    /\ [](/\ \A i, j \in 1..Len(valid_module_map) :
               valid_module_map[i][1] = valid_module_map[j][1] => i = j
          /\ \A i \in 1..Len(valid_module_map) :
               \E k \in 1..Len(plan) : plan[k].filename = valid_module_map[i][2]
          /\ (request.pass > 0 =>
                request.valid_imports_str = ValidImportsStr(valid_module_map)))
    /\ [][ request.pass > 0 /\ request'.pass > 0
             => request'.valid_imports_str = request.valid_imports_str ]_vars

\* A prompt of a third pass, for a plan in which two files share a module name
C10_Witness ==
    /\ plan = <<FInit, FApp>>
    /\ request.pass = 3
    /\ request.valid_imports_str = "'app'"

\* The filenames of ProjectPlan.files
PlanFilenames ==
    { plan[i].filename : i \in 1..Len(plan) }

\* The static artifacts the plan holds
PlannedStatic ==
    PlanFilenames \cap StaticFiles

\* C11: in a pass of builder_node entered with iterations > 0 no prompt is
\* sent for a static artifact of the plan, no step of the pass changes the
\* content on disk of such an artifact, and the workspace the pass returns
\* has for it the entry the pass was entered with.
C11_StaticStable ==
    [][ pc = "builder_loop" /\ is_retry =>
          /\ (AtOracleCall => request'.filename \notin StaticFiles)
          /\ \A f \in PlannedStatic :
                /\ (f \in DOMAIN disk') = (f \in DOMAIN disk)
                /\ Get(disk', f, "") = Get(disk, f, "")
                /\ (f \in DOMAIN file_contents') = (f \in DOMAIN file_contents)
                /\ Get(file_contents', f, "") = Get(file_contents, f, "") ]_vars

\* C12: when the oracle call for a file raises, the run is aborted at once:
\* the entry of the file in the workspace and its content on disk stay as
\* they were, and no step follows, so no prompt is sent and tester_node does
\* not run.
C12_OracleFailureAborts ==
    /\ [](request.pass > 0 /\ response = NoResponse => pc = "aborted")
    /\ [][ pc = "aborted" => UNCHANGED vars ]_vars
    /\ [][ AtOracleCall /\ response' = NoResponse =>
             /\ pc' = "aborted"
             /\ request'.filename = sorted_files[idx].filename
             /\ nTest' = nTest
             /\ \A m \in {1, 2, 3} :
                  LET before == <<file_contents, files_created, disk>>[m]
                      after == <<file_contents', files_created', disk'>>[m]
                      f == sorted_files[idx].filename
                  IN  /\ (f \in DOMAIN after) = (f \in DOMAIN before)
                      /\ Get(after, f, "") = Get(before, f, "") ]_vars

\* The oracle failed on a file of a second pass that has content, after
\* another file of that pass was written
C12_Witness ==
    /\ pc = "aborted" /\ response = NoResponse
    /\ request.pass = 2 /\ writes = 1
    /\ request.previous_code # ""
    /\ Get(disk, request.filename, "") = request.previous_code
    /\ Get(file_contents, request.filename, "") = request.previous_code

\* C13: builder_node is entered with iterations > 0 only after a test run in
\* which the suite ran in the container and exited nonzero; a failure of the
\* architect or of the code oracle ends the run, and a container run that
\* raised ends the run too, without a further pass of builder_node and with
\* iterations left as it was.
C13_RepairOnlyOnValidationFailure ==
    /\ [](pc = "builder_node" /\ iterations > 0 => ~outcome.raised /\ outcome.code # 0)
    /\ [][ pc = "tester_node" /\ outcome'.raised =>
             pc' # "builder_node" /\ iterations' = iterations ]_vars
    /\ [][ pc' = "aborted" => nBuild' = nBuild /\ iterations' = iterations ]_vars

\* The package name of a manifest line: what stands before the version
\* operator, if there is one
C14_PackageName(line) ==
    Strip(Split(Split(Split(Split(Split(line, "=")[1], ">")[1], "<")[1], "~")[1], "!")[1])

\* The package is named and is not one of the built-in names
C14_ThirdParty(line) ==
    C14_PackageName(line) # "" /\ Lower(C14_PackageName(line)) \notin Forbidden

\* C14: the manifest tester_node leaves on disk has no entry for a built-in
\* package, and it has an entry for each entry of the manifest it found
\* whose package is named and not built-in, for the same package and in the
\* same order.
C14_Sanitation ==
    [][ pc = "tester_node" /\ RequirementsFile \in DOMAIN disk =>
          LET kept == SelectSeq(ReadLines(disk[RequirementsFile]), C14_ThirdParty)
              after == ReadLines(disk'[RequirementsFile])
              retained == SelectSeq(after, C14_ThirdParty)
          IN  /\ \A i \in 1..Len(after) :
                   Lower(C14_PackageName(after[i])) \notin Forbidden
              /\ Len(retained) = Len(kept)
              /\ \A i \in 1..Len(kept) :
                   C14_PackageName(retained[i]) = C14_PackageName(kept[i]) ]_vars

StageBoundary ==
    pc \in {"builder_node", "tester_node", "done", "failed"}

\* C17 as claimed: between two nodes of the graph every file of the workspace
\* in memory is on disk with the same content.
C17_Mirror ==
    StageBoundary =>
      \A f \in DOMAIN file_contents : f \in DOMAIN disk /\ disk[f] = file_contents[f]

\* C17 as the code has it: between two nodes of the graph every file of the
\* workspace in memory is on disk, with the same content if it is not the
\* dependency manifest; the manifest on disk holds the content in memory or
\* what sanitation makes of it.
C17_MirrorAmended ==
    StageBoundary =>
      \A f \in DOMAIN file_contents :
        /\ f \in DOMAIN disk
        /\ (f # RequirementsFile => disk[f] = file_contents[f])
        /\ (f = RequirementsFile =>
              disk[f] \in {file_contents[f], SanitizedManifest(file_contents[f])})

\* The run has ended with a source file mirrored on disk and a manifest that
\* differs from the one in memory
C17_Witness ==
    /\ pc = "failed"
    /\ plan = <<FReqs, FModels>>
    /\ Get(file_contents, FModels.filename, "") = "B=1"
    /\ Get(disk, FModels.filename, "") = "B=1"
    /\ Get(file_contents, RequirementsFile, "") = "pytest"
    /\ Get(disk, RequirementsFile, "") = "pytest\n"

\* C18: for a plan of distinct filenames, no two .py files of the plan have
\* the same module path, and every .py file of the plan is a value of the
\* registry.
C18_CollisionFree ==
    pc = "builder_loop" /\ (\A i, j \in 1..Len(plan) :
                              plan[i].filename = plan[j].filename => i = j) =>
      /\ \A i, j \in 1..Len(plan) :
           /\ EndsWith(plan[i].filename, ".py") /\ EndsWith(plan[j].filename, ".py")
           /\ ModulePath(plan[i].filename) = ModulePath(plan[j].filename)
           => i = j
      /\ \A i \in 1..Len(plan) :
           EndsWith(plan[i].filename, ".py") =>
             \E k \in 1..Len(valid_module_map) : valid_module_map[k][2] = plan[i].filename

\* C19: every key of the workspace in memory and every file on disk is a
\* filename of the plan, whatever the oracle answers, and an answer is stored
\* under the filename of the file spec it was asked for.
C19_WithinPlan ==
    /\ [](DOMAIN file_contents \cup DOMAIN files_created \cup DOMAIN disk
            \subseteq PlanFilenames)
    /\ [][ AtOracleCall /\ files_created' # files_created =>
             /\ DOMAIN files_created' = DOMAIN files_created \cup {sorted_files[idx].filename}
             /\ files_created'[sorted_files[idx].filename] = clean_code(response'.content)
          ]_vars

\* C20: iterations is the number of test runs so far that tester_node saw
\* exit nonzero, it lies between 0 and 5 and never decreases; status is
\* starting exactly as long as tester_node has not run; and builder_node has
\* been entered at most iterations + 1 times.
C20_IterationAccounting ==
    /\ [](/\ iterations = nFail
          /\ 0 <= iterations /\ iterations <= MaxIterations
          /\ (status = "starting" <=> nTest = 0)
          /\ nBuild <= iterations + 1)
    /\ [][ iterations' >= iterations ]_vars

\* Four failed test runs and a fifth that passed
C20_Witness ==
    /\ pc = "done" /\ status = "success"
    /\ nTest = MaxIterations /\ nFail = MaxIterations - 1
    /\ iterations = MaxIterations - 1 /\ nBuild = MaxIterations

\* C21: once tester_node has run there is a manifest on disk, the default
\* one if there was none; the manifest a run of tester_node leaves is one
\* that sanitation leaves as it is; and with no pass of builder_node writing
\* the manifest, every later run of tester_node leaves it as it found it.
C21_ManifestStable ==
    /\ [](nTest >= 1 => RequirementsFile \in DOMAIN disk)
    /\ [][ pc = "tester_node" =>
             /\ (RequirementsFile \notin DOMAIN disk =>
                   disk'[RequirementsFile] = DefaultReqs)
             /\ ensure_requirements(disk') = disk'
             /\ (nTest >= 1 => disk' = disk) ]_vars
    /\ [][ pc # "tester_node" => disk' = disk ]_vars

\* The third run of tester_node found the manifest the first one had
\* sanitized, which is not the one the oracle wrote
C21_Witness ==
    /\ nTest = 3
    /\ Get(file_contents, RequirementsFile, "") = "fastapi>=0.100\nos==1.0"
    /\ Get(disk, RequirementsFile, "") = "fastapi\n"

====
